---- MODULE Spec2Model ----
(***************************************************************************)
(* A model of lib/associations/belongs-to.js: the BelongsTo association    *)
(* (constructor / key resolution, injectAttributes, mixin, get, set,       *)
(* create) together with the collaborators it calls (the source and target *)
(* models' attribute registries, instances, the query and persistence      *)
(* interface).                                                             *)
(***************************************************************************)
EXTENDS Integers, Sequences, FiniteSets, TLC

(* ------------------------------ bounds --------------------------------- *)
\* longest foreignKey / targetKey array passed as an option
MaxKeys == 2
\* largest array of source instances passed to a batch get
MaxBatch == 2
\* number of target rows create() may add
MaxCreates == 1

(* --------------------------- JavaScript values ------------------------- *)
\* A JavaScript value: a tag and a printed form.
Undefined == [t |-> "undefined", v |-> "undefined"]
Null == [t |-> "null", v |-> "null"]
Num(s) == [t |-> "num", v |-> s]
\* marks an option or descriptor field that is not given
Unset == "<unset>"

\* Property-key coercion: obj[k] uses String(k).
ToKey(x) == x.v

(* ------------------------- the two model classes ----------------------- *)
\* target model: User(id INTEGER primary key, tenant STRING stored as tenant_id)
TargetPrimaryKey == "id"
TargetRawAttributes ==
  [id |-> [type |-> "INTEGER", field |-> Unset],
   tenant |-> [type |-> "STRING", field |-> "tenant_id"]]

\* names usable as foreign keys on the source, and as target keys in options
FKNamePool == <<"userId", "tenantId", "orgId", "teamId">>
FKNames == {FKNamePool[i] : i \in 1..Len(FKNamePool)}
TKNames == {"id", "tenant", "nope"}

\* an attribute definition of the source registry
Attr(type, allowNull, references) ==
  [type |-> type, allowNull |-> allowNull, references |-> references]

\* registries a source model can have before the association is declared
EmptyRegistry == [n \in {} |-> Attr("INTEGER", TRUE, Unset)]
ExplicitRegistry == [n \in {"userId"} |-> Attr("STRING", FALSE, Unset)]
SourceRegistries == {EmptyRegistry, ExplicitRegistry}

(* ------------------------------ options -------------------------------- *)
\* one element of options.foreignKey: a string or a descriptor object
StrElem(n) == [obj |-> FALSE, name |-> n, type |-> Unset]
ObjElem(n, ty) == [obj |-> TRUE, name |-> n, type |-> ty]
\* the arrays of the model: strings and descriptors in turn, of distinct names
ArrayElemAt(i) ==
  IF i % 2 = 1 THEN StrElem(FKNamePool[i]) ELSE ObjElem(FKNamePool[i], Unset)
ForeignKeyArray(k) == [i \in 1..k |-> ArrayElemAt(i)]

SeqsUpTo(S, n) == UNION {[1..k -> S] : k \in 0..n}

ForeignKeyOptions ==
  {[kind |-> "absent", elems |-> <<>>]}
  \cup {[kind |-> "string", elems |-> <<StrElem("userId")>>]}
  \cup {[kind |-> "object", elems |-> <<e>>] :
          e \in {ObjElem("userId", "BIGINT"), ObjElem(Unset, "BIGINT")}}
  \cup {[kind |-> "array", elems |-> ForeignKeyArray(k)] : k \in 0..MaxKeys}

TargetKeyOptions ==
  {[kind |-> "absent", names |-> <<>>]}
  \cup {[kind |-> "string", names |-> <<n>>] : n \in TKNames}
  \cup {[kind |-> "array", names |-> s] : s \in SeqsUpTo(TKNames, MaxKeys)}

IsArray(o) == o.kind = "array"
OptLen(o) == IF "elems" \in DOMAIN o THEN Len(o.elems) ELSE Len(o.names)

(* ---------------------------- constructor ------------------------------ *)
\* an arity check that compares the lengths only when both are arrays
ArityMismatchLengthsOnly(fk, tk) ==
  IsArray(fk) /\ IsArray(tk) /\ OptLen(fk) # OptLen(tk)

\* lines 36-45: the composite-key arity check
ArityMismatch(fk, tk) ==
  /\ (IsArray(fk) \/ IsArray(tk))
  /\ (~IsArray(fk) \/ ~IsArray(tk) \/ OptLen(fk) # OptLen(tk))

\* lines 289-297, for the alias "User" and primary key "id"
GetDefaultForeignKeyName(underscored) ==
  IF underscored THEN "user_id" ELSE "UserId"

\* a resolved foreign key descriptor {name, type?}
Descriptor(n, ty) == [name |-> n, type |-> ty]

\* lines 47-73
ResolveForeignKeys(fk, underscored) ==
  CASE fk.kind = "array" ->
         [i \in 1..Len(fk.elems) |-> Descriptor(fk.elems[i].name, fk.elems[i].type)]
    [] fk.kind = "object" ->
         <<Descriptor(IF fk.elems[1].name # Unset THEN fk.elems[1].name
                      ELSE GetDefaultForeignKeyName(underscored),
                      fk.elems[1].type)>>
    [] fk.kind = "string" -> <<Descriptor(fk.elems[1].name, Unset)>>
    [] OTHER -> <<Descriptor(GetDefaultForeignKeyName(underscored), Unset)>>

\* a resolution that keeps the first target key of an array only
ResolveTargetKeysFirstOnly(tk) ==
  IF tk.kind \in {"array", "string"} /\ Len(tk.names) > 0 THEN <<tk.names[1]>>
  ELSE <<TargetPrimaryKey>>

\* lines 81-85
ResolveTargetKeys(tk) ==
  IF tk.kind = "array" THEN tk.names
  ELSE IF tk.kind = "string" THEN <<tk.names[1]>>
  ELSE <<TargetPrimaryKey>>

\* lines 87-89: reading .field of a target attribute that does not exist throws
TargetKeyFieldsThrow(tks) ==
  \E i \in 1..Len(tks) : tks[i] \notin DOMAIN TargetRawAttributes

TargetKeyFields(tks) ==
  [i \in 1..Len(tks) |->
     IF TargetRawAttributes[tks[i]].field # Unset
     THEN TargetRawAttributes[tks[i]].field ELSE tks[i]]

\* lines 91-94
SinglePrimaryTargetKey(fks, tks) ==
  IF Len(tks) = 1 /\ tks[1] = TargetPrimaryKey THEN fks[1].name ELSE Unset

\* lines 91-94 read this.foreignKeys[0].name: a TypeError when there is none
SinglePrimaryThrows(fks, tks) ==
  Len(tks) = 1 /\ tks[1] = TargetPrimaryKey /\ Len(fks) = 0

\* this.foreignKey and this.targetKey (singular) are read by get and set but
\* the constructor assigns only foreignKeys and targetKeys: both are undefined
AssocForeignKey == Undefined
AssocTargetKey == Undefined

\* lines 77-79: the identifiers are descriptor objects, so the registry is
\* looked up under String(object)
ObjectKey == "[object Object]"
IdentifierFields(fks, raw) ==
  IF ObjectKey \in DOMAIN raw THEN [i \in 1..Len(fks) |-> ObjectKey] ELSE <<>>

\* lines 100-106, for the alias "User"
Accessors == [get |-> "getUser", set |-> "setUser", create |-> "createUser"]

(* --------------------------- injectAttributes -------------------------- *)
\* this.targetKeys[index]: undefined past the end of the array
TargetKeyAt(tks, i) == IF i <= Len(tks) THEN tks[i] ELSE ""

\* line 117: some pair has no target key
MissingTargetKey(fks, tks) ==
  \E i \in 1..Len(fks) : TargetKeyAt(tks, i) = ""

\* Helpers.addForeignKeyConstraints: records the reference to the target field
AddForeignKeyConstraints(attr, targetKeyField) ==
  [attr EXCEPT !.references = targetKeyField]

\* lines 120-132: the candidate attribute of the pair at index i
NewAttribute(fks, tks, tkfs, keyType, i) ==
  AddForeignKeyConstraints(
    Attr(IF fks[i].type # Unset THEN fks[i].type
         ELSE IF keyType # Unset THEN keyType
         ELSE TargetRawAttributes[tks[i]].type,
         TRUE, Unset),
    tkfs[i])

\* lines 111-133: newAttributes; a later pair of the same name overwrites
NewAttributes(fks, tks, tkfs, keyType) ==
  [n \in {fks[i].name : i \in 1..Len(fks)} |->
     LET last == CHOOSE i \in 1..Len(fks) :
                   /\ fks[i].name = n
                   /\ \A j \in 1..Len(fks) : fks[j].name = n => j <= i
     IN NewAttribute(fks, tks, tkfs, keyType, last)]

\* Utils.mergeDefaults(a, b): a name already in a keeps a's definition
MergeDefaults(a, b) ==
  [n \in DOMAIN a \cup DOMAIN b |-> IF n \in DOMAIN a THEN a[n] ELSE b[n]]

\* a merge in which the injected definition wins (Object.assign)
MergedRegistryAssign(raw, fks, tks, tkfs, keyType) ==
  LET b == NewAttributes(fks, tks, tkfs, keyType)
  IN [n \in DOMAIN raw \cup DOMAIN b |-> IF n \in DOMAIN b THEN b[n] ELSE raw[n]]

\* lines 111-142: the registry after the merge
MergedRegistry(raw, fks, tks, tkfs, keyType) ==
  MergeDefaults(raw, NewAttributes(fks, tks, tkfs, keyType))

(* ------------------------------ instances ------------------------------ *)
SrcIds == {"s1", "s2"}
\* the source instance set and create act on
Actor == "s1"
\* property names of a source instance's dataValues
DataKeys == FKNames \cup {"UserId", "user_id", "undefined"}

\* instance.get(key) / instance[key]: the value stored under the name
InstanceGet(dv, key) == IF key \in DOMAIN dv THEN dv[key] ELSE Undefined
\* instance.set(key, value): store the value under the name
InstanceSet(dv, key, value) == [k \in DOMAIN dv \cup {key} |-> IF k = key THEN value ELSE dv[k]]

\* s1 refers to a target row that does not exist, s2 to the row of id 1
InitialDataValues ==
  [s \in SrcIds |->
     [k \in DataKeys |->
        IF k = "undefined" THEN Undefined
        ELSE IF s = "s1" THEN Num("9")
        ELSE IF k = "tenantId" THEN Null ELSE Num("1")]]

\* a row of the target table
Row(id, tenant) == [id |-> id, tenant |-> tenant]
NoRow == Row(Undefined, Undefined)
InitialRows == {Row(Num("1"), Num("1"))}
NumStr == <<"1", "2", "3", "4", "5">>
\* the row target.create inserts: the next id
NextRow(rows) ==
  Row(Num(NumStr[Cardinality(rows) + 1]), Num(NumStr[Cardinality(rows) + 1]))

(* -------------------------------- state -------------------------------- *)
VARIABLES
  phase,          \* "declared", "constructed", "injected", "ready" or "failed"
  options,        \* the options and the source registry the association is declared with
  error,          \* what construction or injection threw, and where
  rawAttributes,  \* source.rawAttributes
  foreignKeys,    \* this.foreignKeys
  targetKeys,     \* this.targetKeys
  derived,        \* targetKeyFields, identifierFields, singlePrimaryTargetKey, accessors
  methods,        \* accessor names mixed into the source prototype
  dataValues,     \* the source instances in memory
  persisted,      \* the source rows in the database
  targetRows,     \* the target table
  call            \* the traversal call in progress, or the last one

vars == <<phase, options, error, rawAttributes, foreignKeys, targetKeys, derived,
          methods, dataValues, persisted, targetRows, call>>

NoError == [kind |-> "none", at |-> "none"]
NoDerived ==
  [targetKeyFields |-> <<>>, identifierFields |-> <<>>,
   singlePrimaryTargetKey |-> Unset, accessors |-> Accessors]

\* the result of a traversal call
Pending == [kind |-> "pending", row |-> NoRow, reason |-> "none"]
ResolvedRow(r) == [kind |-> "row", row |-> r, reason |-> "none"]
ResolvedNull == [kind |-> "null", row |-> NoRow, reason |-> "none"]
ResolvedUndefined == [kind |-> "undefined", row |-> NoRow, reason |-> "none"]
ResolvedSource == [kind |-> "source", row |-> NoRow, reason |-> "none"]
ResolvedMapping == [kind |-> "mapping", row |-> NoRow, reason |-> "none"]
Rejected(why) == [kind |-> "rejected", row |-> NoRow, reason |-> why]

NoMapping == [k \in {} |-> [isNull |-> TRUE, row |-> NoRow]]
IdleCall ==
  [op |-> "none", stage |-> "done", arrayArg |-> FALSE, instances |-> <<>>,
   queries |-> <<>>, mapping |-> NoMapping, result |-> ResolvedUndefined,
   withInstance |-> FALSE, given |-> Undefined, givenRow |-> NoRow,
   saveOption |-> TRUE, saves |-> 0, savedFields |-> {},
   setterInvoked |-> FALSE, created |-> NoRow, failure |-> "none",
   before |-> InitialDataValues[Actor]]

InitWith(keyTypes, registries) ==
  /\ phase = "declared"
  /\ options \in [foreignKey : ForeignKeyOptions, targetKey : TargetKeyOptions,
                  keyType : keyTypes, underscored : {FALSE},
                  registry : registries]
  /\ error = NoError
  /\ rawAttributes = options.registry
  /\ foreignKeys = <<>>
  /\ targetKeys = <<>>
  /\ derived = NoDerived
  /\ methods = {}
  /\ dataValues = InitialDataValues
  /\ persisted = InitialDataValues
  /\ targetRows = InitialRows
  /\ call = IdleCall

\* every declaration of the model
DeclInit == InitWith({Unset, "UUID"}, SourceRegistries)
\* the declarations whose traversal calls are followed
Init == InitWith({Unset}, {ExplicitRegistry})

(* ----------------------------- construction ---------------------------- *)
\* new BelongsTo(source, target, options), lines 18-107
Construct ==
  /\ phase = "declared"
  /\ UNCHANGED <<options, rawAttributes, methods, dataValues, persisted, targetRows, call>>
  /\ IF ArityMismatch(options.foreignKey, options.targetKey)
     THEN /\ phase' = "failed"
          /\ error' = [kind |-> "ConfigError", at |-> "constructor"]
          /\ UNCHANGED <<foreignKeys, targetKeys, derived>>
     ELSE LET fks == ResolveForeignKeys(options.foreignKey, options.underscored)
              tks == ResolveTargetKeys(options.targetKey)
          IN /\ foreignKeys' = fks
             /\ targetKeys' = tks
             /\ IF TargetKeyFieldsThrow(tks) \/ SinglePrimaryThrows(fks, tks)
                THEN /\ phase' = "failed"
                     /\ error' = [kind |-> "TypeError", at |-> "constructor"]
                     /\ UNCHANGED derived
                ELSE /\ phase' = "constructed"
                     /\ error' = NoError
                     /\ derived' =
                          [targetKeyFields |-> TargetKeyFields(tks),
                           identifierFields |-> IdentifierFields(fks, rawAttributes),
                           singlePrimaryTargetKey |-> SinglePrimaryTargetKey(fks, tks),
                           accessors |-> Accessors]

\* association.injectAttributes(), lines 110-152
InjectAttributes ==
  /\ phase \in {"constructed", "injected", "ready"}
  /\ UNCHANGED <<options, foreignKeys, targetKeys, derived, methods, dataValues,
                 persisted, targetRows, call>>
  /\ IF MissingTargetKey(foreignKeys, targetKeys)
     THEN /\ phase' = "failed"
          /\ error' = [kind |-> "MissingTargetKey", at |-> "injectAttributes"]
          /\ UNCHANGED rawAttributes
     ELSE /\ rawAttributes' = MergedRegistry(rawAttributes, foreignKeys, targetKeys,
                                             derived.targetKeyFields, options.keyType)
          /\ phase' = IF phase = "constructed" THEN "injected" ELSE phase
          /\ UNCHANGED error

\* association.mixin(source.prototype), lines 154-158
Mixin ==
  /\ phase \in {"injected", "ready"}
  /\ methods' = methods \cup {derived.accessors.get, derived.accessors.set,
                              derived.accessors.create}
  /\ phase' = "ready"
  /\ UNCHANGED <<options, error, rawAttributes, foreignKeys, targetKeys, derived,
                 dataValues, persisted, targetRows, call>>

(* --------------------------------- get --------------------------------- *)
\* the first argument of get: an array of source instances, or one instance
ArrayArg(insts) == [isArray |-> TRUE, insts |-> insts, inst |-> Actor]
SingleArg(s) == [isArray |-> FALSE, insts |-> <<>>, inst |-> s]
GetArgs ==
  {ArrayArg(q) : q \in SeqsUpTo(SrcIds, MaxBatch)} \cup {SingleArg(s) : s \in SrcIds}

\* the options of get: where, scope ("absent", "false" or a scope name), schema
GetOptions ==
  {[where |-> FALSE, scope |-> "absent", schema |-> FALSE],
   [where |-> TRUE, scope |-> "false", schema |-> FALSE],
   [where |-> FALSE, scope |-> "named", schema |-> TRUE]}

\* the caller's options.where of the model: tenant = 1
OptionsWhere(r) == r.tenant = Num("1")

\* an emptiness test in place of the truthiness test of line 194
BatchModeNonEmpty(arg) == arg.isArray /\ Len(arg.insts) > 0

\* lines 189-194: instances is kept when it is an array; every array is truthy
BatchMode(arg) == arg.isArray

\* the index whose assignment to where[key] is the last one
LastIndexFor(fks, tks, key) ==
  CHOOSE i \in 1..Len(fks) :
    /\ TargetKeyAt(tks, i) = key
    /\ \A j \in 1..Len(fks) : TargetKeyAt(tks, j) = key => j <= i

\* lines 195-199: where[targetKeys[i]] = {in: the instances' foreignKeys[i]}
BatchWhere(fks, tks, insts, dv) ==
  [key \in {TargetKeyAt(tks, i) : i \in 1..Len(fks)} |->
     {InstanceGet(dv[insts[j]], fks[LastIndexFor(fks, tks, key)].name) :
        j \in 1..Len(insts)}]

\* lines 203-205: where[targetKeys[i]] = the instance's foreignKeys[i]
SingleWhere(fks, tks, inst, dv) ==
  [key \in {TargetKeyAt(tks, i) : i \in 1..Len(fks)} |->
     {InstanceGet(dv[inst], fks[LastIndexFor(fks, tks, key)].name)}]

\* Target.findAll / findOne: the rows the filter selects
Matching(rows, where, withOptionsWhere) ==
  {r \in rows :
     /\ \A key \in DOMAIN where : InstanceGet(r, key) \in where[key]
     /\ withOptionsWhere => OptionsWhere(r)}

\* Target.findById
ById(rows, id) == {r \in rows : r.id = id}

\* lines 213-222: a null entry under each instance's get(this.foreignKey), then
\* each result stored under its get(this.targetKey); of the results with the
\* same key the last one of the result order stays
SourceKey(dv) == ToKey(InstanceGet(dv, ToKey(AssocForeignKey)))
ResultKey(r) == ToKey(InstanceGet(r, ToKey(AssocTargetKey)))
BatchMappings(insts, results, dv) ==
  LET nullKeys == {SourceKey(dv[insts[j]]) : j \in 1..Len(insts)}
      rowKeys == {ResultKey(r) : r \in results}
      lasts == {f \in [rowKeys -> results] : \A k \in rowKeys : ResultKey(f[k]) = k}
  IN {[k \in nullKeys \cup rowKeys |->
         IF k \in rowKeys THEN [isNull |-> FALSE, row |-> f[k]]
         ELSE [isNull |-> TRUE, row |-> NoRow]] : f \in lasts}

Query(method, opts) ==
  [method |-> method, where |-> opts.where, scope |-> opts.scope,
   schema |-> opts.schema]

GetCall(arg) ==
  [IdleCall EXCEPT !.op = "get", !.arrayArg = arg.isArray, !.instances = arg.insts,
                   !.before = dataValues[Actor]]

\* association.get(instances, options), lines 169-227, with the query it issues
Get ==
  /\ phase = "ready"
  /\ call.stage = "done"
  /\ UNCHANGED <<phase, options, error, rawAttributes, foreignKeys, targetKeys,
                 derived, methods, dataValues, persisted, targetRows>>
  /\ \E arg \in GetArgs, opts \in GetOptions :
       IF BatchMode(arg)
       THEN LET where == BatchWhere(foreignKeys, targetKeys, arg.insts, dataValues)
                results == Matching(targetRows, where, opts.where)
            IN \E m \in BatchMappings(arg.insts, results, dataValues) :
                 call' = [GetCall(arg) EXCEPT
                            !.queries = <<Query("findAll", opts)>>,
                            !.mapping = m, !.result = ResolvedMapping]
       ELSE IF arg.isArray
       THEN \* instance is undefined: instance.get throws
            call' = [GetCall(arg) EXCEPT !.result = Rejected("TypeError")]
       ELSE IF derived.singlePrimaryTargetKey # Unset /\ ~opts.where
       THEN LET found == ById(targetRows,
                              InstanceGet(dataValues[arg.inst],
                                          derived.singlePrimaryTargetKey))
            IN \E res \in ({ResolvedRow(r) : r \in found}
                           \cup (IF found = {} THEN {ResolvedNull} ELSE {})) :
                 call' = [GetCall(arg) EXCEPT
                            !.queries = <<Query("findById", opts)>>, !.result = res]
       ELSE LET where == SingleWhere(foreignKeys, targetKeys, arg.inst, dataValues)
                found == Matching(targetRows, where, opts.where)
            IN \E res \in ({ResolvedRow(r) : r \in found}
                           \cup (IF found = {} THEN {ResolvedNull} ELSE {})) :
                 call' = [GetCall(arg) EXCEPT
                            !.queries = <<Query("findOne", opts)>>, !.result = res]

(* --------------------------------- set --------------------------------- *)
\* the second argument of set: a target instance, or a raw key value
InstanceArg(r) == [isInstance |-> TRUE, row |-> r, value |-> Undefined]
RawArg(v) == [isInstance |-> FALSE, row |-> NoRow, value |-> v]
SetArgs(rows) == {InstanceArg(r) : r \in rows} \cup {RawArg(v) : v \in {Null, Num("1")}}

\* lines 242-245
SetValue(assoc) ==
  IF assoc.isInstance THEN InstanceGet(assoc.row, ToKey(AssocTargetKey)) ELSE assoc.value

\* line 247: sourceInstance.set(this.foreignKey, value)
SetAssign(dv, assoc) == InstanceSet(dv, ToKey(AssocForeignKey), SetValue(assoc))

\* lines 251-258: fields: [this.foreignKey]
SaveFields == {ToKey(AssocForeignKey)}

\* lines 237-262: the call record once set has assigned and (unless
\* options.save === false) has called save
SetterCall(c, assoc, save) ==
  [c EXCEPT !.withInstance = assoc.isInstance, !.given = assoc.value,
            !.givenRow = assoc.row, !.saveOption = save, !.setterInvoked = TRUE,
            !.stage = IF save THEN "saving" ELSE "done",
            !.saves = IF save THEN 1 ELSE 0,
            !.savedFields = IF save THEN SaveFields ELSE {},
            !.result = IF save THEN Pending ELSE ResolvedUndefined]

\* association.set(sourceInstance, associatedInstance, options), lines 237-262
Set ==
  /\ phase = "ready"
  /\ call.stage = "done"
  /\ \E assoc \in SetArgs(targetRows), save \in BOOLEAN :
       /\ dataValues' = [dataValues EXCEPT ![Actor] = SetAssign(@, assoc)]
       /\ call' = SetterCall([IdleCall EXCEPT !.op = "set",
                                              !.before = dataValues[Actor]],
                             assoc, save)
  /\ UNCHANGED <<phase, options, error, rawAttributes, foreignKeys, targetKeys,
                 derived, methods, persisted, targetRows>>

\* sourceInstance.save({fields}) succeeds: the named fields are written, and
\* the promise resolves to the source instance
SaveResolve ==
  /\ call.stage = "saving"
  /\ persisted' = [persisted EXCEPT ![Actor] =
                     [k \in DOMAIN @ |-> IF k \in call.savedFields
                                         THEN dataValues[Actor][k] ELSE @[k]]]
  /\ call' = [call EXCEPT !.stage = "done", !.result = ResolvedSource]
  /\ UNCHANGED <<phase, options, error, rawAttributes, foreignKeys, targetKeys,
                 derived, methods, dataValues, targetRows>>

\* sourceInstance.save fails: the rejection is the result of the call
OnSaveRejected(c) == [c EXCEPT !.stage = "done", !.result = Rejected("save")]

SaveReject ==
  /\ call.stage = "saving"
  /\ call' = [OnSaveRejected(call) EXCEPT !.failure = "save"]
  /\ UNCHANGED <<phase, options, error, rawAttributes, foreignKeys, targetKeys,
                 derived, methods, dataValues, persisted, targetRows>>

(* -------------------------------- create ------------------------------- *)
\* association.create(sourceInstance, values, options), lines 272-283:
\* target.create is called and its promise is awaited
Create ==
  /\ phase = "ready"
  /\ call.stage = "done"
  /\ Cardinality(targetRows) < Cardinality(InitialRows) + MaxCreates
  /\ call' = [IdleCall EXCEPT !.op = "create", !.stage = "creating",
                              !.result = Pending, !.before = dataValues[Actor]]
  /\ UNCHANGED <<phase, options, error, rawAttributes, foreignKeys, targetKeys,
                 derived, methods, dataValues, persisted, targetRows>>

\* lines 284-286: target.create resolved; the callback calls the generated setter
TargetCreateResolve ==
  /\ call.stage = "creating"
  /\ LET row == NextRow(targetRows)
     IN /\ targetRows' = targetRows \cup {row}
        /\ IF derived.accessors.set \in methods
           THEN /\ dataValues' = [dataValues EXCEPT
                                    ![Actor] = SetAssign(@, InstanceArg(row))]
                /\ call' = SetterCall([call EXCEPT !.created = row],
                                      InstanceArg(row), TRUE)
           ELSE /\ call' = [call EXCEPT !.created = row, !.stage = "done",
                                        !.result = Rejected("TypeError")]
                /\ UNCHANGED dataValues
  /\ UNCHANGED <<phase, options, error, rawAttributes, foreignKeys, targetKeys,
                 derived, methods, persisted>>

\* a rejection handler that links all the same
OnTargetCreateRejectedLinks(c) ==
  [c EXCEPT !.stage = "done", !.setterInvoked = TRUE, !.result = ResolvedSource]

\* lines 282-286: .then(onFulfilled) alone: a rejection of target.create skips
\* the callback and is the result of create
OnTargetCreateRejected(c) ==
  [c EXCEPT !.stage = "done", !.result = Rejected("create")]

TargetCreateReject ==
  /\ call.stage = "creating"
  /\ call' = [OnTargetCreateRejected(call) EXCEPT !.failure = "create"]
  /\ UNCHANGED <<phase, options, error, rawAttributes, foreignKeys, targetKeys,
                 derived, methods, dataValues, persisted, targetRows>>

Next ==
  \/ Construct
  \/ InjectAttributes
  \/ Mixin
  \/ Get
  \/ Set
  \/ SaveResolve
  \/ SaveReject
  \/ Create
  \/ TargetCreateResolve
  \/ TargetCreateReject

Spec == Init /\ [][Next]_vars

\* declaration alone: construction, injection and mixin over every declaration
DeclNext == Construct \/ InjectAttributes \/ Mixin
DeclSpec == DeclInit /\ [][DeclNext]_vars

(* ------------------------------ properties ----------------------------- *)
ForeignKeyNames == {foreignKeys[i].name : i \in 1..Len(foreignKeys)}

\* the options name an array on one side only, or arrays of different lengths
ArityMismatchDeclared ==
  LET fk == options.foreignKey
      tk == options.targetKey
  IN \/ fk.kind = "array" /\ tk.kind # "array"
     \/ tk.kind = "array" /\ fk.kind # "array"
     \/ fk.kind = "array" /\ tk.kind = "array" /\ Len(fk.elems) # Len(tk.names)

\* C1: a declaration whose foreignKey / targetKey arity does not match always
\* fails at construction with the configuration error, and the source's
\* rawAttributes are what they were before (injectAttributes is never reached).
C1_MismatchFailsAtConstruction ==
  (ArityMismatchDeclared /\ phase # "declared") =>
    /\ phase = "failed"
    /\ error = [kind |-> "ConfigError", at |-> "constructor"]
    /\ rawAttributes = options.registry

C1_Witness ==
  /\ phase = "failed"
  /\ error.kind = "ConfigError"
  /\ options.foreignKey.kind = "array"
  /\ options.targetKey.kind = "array"
  /\ Len(options.foreignKey.elems) = 2
  /\ Len(options.targetKey.names) = 1
  /\ "userId" \in DOMAIN options.registry

SuccessfullyConstructed ==
  \/ phase \in {"constructed", "injected", "ready"}
  \/ phase = "failed" /\ error.at = "injectAttributes"

\* C2: after a successful construction, whatever the shape of the options,
\* foreignKeys and targetKeys have the same length and foreignKeys[i] pairs
\* with targetKeys[i] (the i-th entries of the two option arrays), in every
\* state reached by injectAttributes, mixin, get, set and create.
C2_KeysPaired ==
  SuccessfullyConstructed =>
    /\ Len(foreignKeys) = Len(targetKeys)
    /\ options.foreignKey.kind # "array" => Len(foreignKeys) = 1
    /\ options.foreignKey.kind = "array" =>
         \A i \in 1..Len(foreignKeys) :
           /\ foreignKeys[i].name = options.foreignKey.elems[i].name
           /\ targetKeys[i] = options.targetKey.names[i]

C2_Witness ==
  /\ phase = "ready"
  /\ Len(foreignKeys) = 2
  /\ targetKeys = <<"tenant", "id">>
  /\ call.op = "create"
  /\ call.stage = "done"
  /\ call.setterInvoked

RequestedTargetKeyMissing ==
  \E i \in 1..Len(options.targetKey.names) :
    options.targetKey.names[i] \notin DOMAIN TargetRawAttributes

\* C4: when a requested target key is no attribute of the target, the failure
\* is the missing-target-key error of injectAttributes, raised with the source
\* registry unchanged.
C4_MissingTargetKeyAtInjection ==
  (RequestedTargetKeyMissing /\ ~ArityMismatchDeclared /\ phase = "failed") =>
    /\ error = [kind |-> "MissingTargetKey", at |-> "injectAttributes"]
    /\ rawAttributes = options.registry

\* C5: a get whose first argument is an array issues exactly one query, a
\* findAll, whatever the size of the array and the number of key pairs.
C5_BatchGetOneQuery ==
  (call.op = "get" /\ call.arrayArg) =>
    /\ Len(call.queries) = 1
    /\ call.queries[1].method = "findAll"

C5_Witness ==
  /\ call.op = "get"
  /\ call.arrayArg
  /\ call.instances = <<>>
  /\ Len(foreignKeys) = 2
  /\ call.queries # <<>>

\* the target rows the query of a batch get can return for the key value v
RowsFor(v) ==
  {r \in targetRows :
     /\ r[targetKeys[1]] = v
     /\ call.queries[1].where => OptionsWhere(r)}

\* C6: for a single-key association, the mapping of a batch get has exactly
\* one entry per distinct foreign key value of the instances, holding the
\* target row whose target key equals that value, or null when there is none.
C6_BatchMapping ==
  (call.op = "get" /\ call.arrayArg /\ call.result.kind = "mapping"
     /\ Len(foreignKeys) = 1) =>
    LET value(j) == dataValues[call.instances[j]][foreignKeys[1].name]
    IN /\ DOMAIN call.mapping = {ToKey(value(j)) : j \in 1..Len(call.instances)}
       /\ \A j \in 1..Len(call.instances) :
            LET entry == call.mapping[ToKey(value(j))]
            IN IF RowsFor(value(j)) = {} THEN entry.isNull
               ELSE ~entry.isNull /\ entry.row \in RowsFor(value(j))

\* C7: after set(sourceInstance, targetInstance), each foreign key attribute
\* of the source instance equals the target instance's value of the paired
\* target key, the save names exactly the foreign key attributes, and the
\* saved row shows the same values.
C7_SetAssignsForeignKeys ==
  (call.op = "set" /\ call.withInstance) =>
    /\ \A i \in 1..Len(foreignKeys) :
         dataValues[Actor][foreignKeys[i].name] = call.givenRow[targetKeys[i]]
    /\ call.saveOption => call.savedFields = ForeignKeyNames
    /\ call.result = ResolvedSource =>
         \A i \in 1..Len(foreignKeys) :
           persisted[Actor][foreignKeys[i].name] = call.givenRow[targetKeys[i]]

\* C8: set with save: false assigns in memory and never calls save; with the
\* value null the foreign key attributes are null in memory afterwards.
C8_SetWithoutSave ==
  (call.op = "set" /\ ~call.saveOption) =>
    /\ call.saves = 0
    /\ call.stage = "done"
    /\ (~call.withInstance /\ call.given = Null) =>
         \A i \in 1..Len(foreignKeys) : dataValues[Actor][foreignKeys[i].name] = Null

\* C9: in create the setter is invoked only once target.create has resolved;
\* when target.create rejects, the setter is never invoked, the source
\* instance is unchanged and create rejects with that failure; when the save
\* of the link step rejects, create rejects with that failure.
C9_CreateThenLink ==
  call.op = "create" =>
    /\ call.setterInvoked => (call.created # NoRow /\ call.created \in targetRows)
    /\ call.stage = "creating" =>
         (~call.setterInvoked /\ dataValues[Actor] = call.before)
    /\ call.failure = "create" =>
         /\ ~call.setterInvoked
         /\ call.saves = 0
         /\ dataValues[Actor] = call.before
         /\ call.stage = "done"
         /\ call.result = Rejected("create")
    /\ call.failure = "save" =>
         (call.stage = "done" /\ call.result = Rejected("save"))

C9_Witness ==
  /\ call.op = "create"
  /\ call.failure = "create"
  /\ call.result.kind = "rejected"
  /\ Len(foreignKeys) = 2

\* C10: create resolves to the target instance it created, whose target key
\* values equal the source instance's foreign key values after the call.
C10_CreateReturnsTarget ==
  (call.op = "create" /\ call.stage = "done" /\ call.result.kind # "rejected") =>
    /\ call.result = ResolvedRow(call.created)
    /\ \A i \in 1..Len(foreignKeys) :
         call.created[targetKeys[i]] = dataValues[Actor][foreignKeys[i].name]

====
